---- MODULE Spec2Model ----
(***************************************************************************)
(* Model of GPy/core/gp.py: the GP model object (class GP), its            *)
(* constructor, the parameters_changed hook, the prediction and sampling   *)
(* methods and setstate.                                                   *)
(*                                                                         *)
(* Real numbers are fixed-point integers with Scale units per 1.0; every   *)
(* product, quotient and square root rounds down to the grid, which stands *)
(* for the rounding of the float64 arithmetic of numpy/LAPACK.  Matrices   *)
(* are sequences of rows.                                                  *)
(***************************************************************************)
EXTENDS Integers, Sequences, FiniteSets, TLC

VARIABLES
    constructed,       \* TRUE once GP.__init__ has returned normally
    X,                 \* self.X, num_data x input_dim
    Y,                 \* self.Y, num_data x output_dim
    num_data,          \* self.num_data
    input_dim,         \* self.input_dim
    output_dim,        \* self.output_dim
    kern,              \* self.kern (the kernel object and its parameters)
    likelihood,        \* self.likelihood (the likelihood object and its parameters)
    inference_method,  \* self.inference_method
    K,                 \* self.K; <<>> while the attribute is absent
    posterior,         \* self.posterior; posterior.set = FALSE while absent
    rng,               \* state of the global generator np.random
    last,              \* the most recent call on the object and what it returned or raised
    predRef            \* a remembered earlier predict call (history, for determinism)

vars == <<constructed, X, Y, num_data, input_dim, output_dim, kern, likelihood,
          inference_method, K, posterior, rng, last, predRef>>

selfFields == <<X, Y, num_data, input_dim, output_dim, kern, likelihood,
                inference_method, K, posterior>>

-----------------------------------------------------------------------------
(* Bounds of the model *)

Scale == 16

MaxN == 2

RngPeriod == 2

-----------------------------------------------------------------------------
(* Fixed-point arithmetic *)

Fx(n) == n * Scale

FxMul(a, b) == (a * b) \div Scale

FxDiv(a, b) == (a * Scale) \div b

RECURSIVE ISqrtFrom(_, _)
ISqrtFrom(n, r) == IF (r + 1) * (r + 1) > n THEN r ELSE ISqrtFrom(n, r + 1)

\* sqrt of a non-negative fixed-point number
FxSqrt(a) == ISqrtFrom(a * Scale, 0)

Abs(a) == IF a < 0 THEN -a ELSE a

\* a float that may be nan: <<v>> is the number v, <<>> is nan
NaN == <<>>

np_sqrt(a) == IF a < 0 THEN NaN ELSE <<FxSqrt(a)>>

-----------------------------------------------------------------------------
(* Matrices: sequences of rows *)

\* the sequence <<F(1), ..., F(n)>>
MkSeq(F(_), n) ==
    LET acc[k \in 0..n] == IF k = 0 THEN <<>> ELSE Append(acc[k - 1], F(k))
    IN acc[n]

\* the r x c matrix with entries F(i, j)
MkMat(F(_, _), r, c) == MkSeq(LAMBDA i : MkSeq(LAMBDA j : F(i, j), c), r)

\* F(1) + ... + F(n)
Sum(F(_), n) ==
    LET acc[k \in 0..n] == IF k = 0 THEN 0 ELSE acc[k - 1] + F(k)
    IN acc[n]

Rows(A) == Len(A)

Cols(A) == IF Len(A) = 0 THEN 0 ELSE Len(A[1])

Transpose(A) == MkMat(LAMBDA j, i : A[i][j], Cols(A), Rows(A))

\* np.dot(A, B)
np_dot(A, B) ==
    MkMat(LAMBDA i, j : Sum(LAMBDA k : FxMul(A[i][k], B[k][j]), Cols(A)),
          Rows(A), Cols(B))

\* row i of the lower Cholesky factor of A, given the rows before it; a 0 on
\* the diagonal marks a non-positive pivot
CholRow(A, Lprev, i) ==
    LET n == Rows(A)
        row[j \in 0..n] ==
            IF j = 0 THEN <<>>
            ELSE LET r == row[j - 1]
                 IN IF j > i THEN Append(r, 0)
                    ELSE IF j = i
                    THEN LET p == A[i][i] - Sum(LAMBDA k : FxMul(r[k], r[k]), i - 1)
                         IN Append(r, IF p <= 0 THEN 0 ELSE FxSqrt(p))
                    ELSE IF Lprev[j][j] = 0 THEN Append(r, 0)
                    ELSE Append(r, FxDiv(A[i][j]
                                         - Sum(LAMBDA k : FxMul(r[k], Lprev[j][k]), j - 1),
                                         Lprev[j][j]))
    IN row[n]

\* lower Cholesky factor of a symmetric matrix
CholFactor(A) ==
    LET L[i \in 0..Rows(A)] ==
            IF i = 0 THEN <<>>
            ELSE LET prev == L[i - 1] IN Append(prev, CholRow(A, prev, i))
    IN L[Rows(A)]

\* the factorization fails on a non-positive pivot
CholOk(L) == \A i \in 1..Rows(L) : L[i][i] > 0

\* column c of the solution Z of L Z = B (forward substitution)
ForwardCol(L, B, c) ==
    LET z[i \in 0..Rows(L)] ==
            IF i = 0 THEN <<>>
            ELSE LET prev == z[i - 1]
                 IN Append(prev, FxDiv(B[i][c]
                                       - Sum(LAMBDA k : FxMul(L[i][k], prev[k]), i - 1),
                                       L[i][i]))
    IN z[Rows(L)]

\* forward substitution: solve L Z = B for lower-triangular L
ForwardSolve(L, B) ==
    Transpose(MkSeq(LAMBDA c : ForwardCol(L, B, c), Cols(B)))

\* column c of the solution Z of L^T Z = W (back substitution); the column is
\* built from its last entry upwards
BackCol(L, W, c) ==
    LET n == Rows(L)
        z[m \in 0..n] ==
            IF m = 0 THEN <<>>
            ELSE LET prev == z[m - 1]
                     i == n - m + 1
                 IN <<FxDiv(W[i][c]
                            - Sum(LAMBDA k : FxMul(L[i + k][i], prev[k]), m - 1),
                            L[i][i])>> \o prev
    IN z[n]

\* back substitution: solve L^T Z = W for lower-triangular L
BackSolve(L, W) ==
    Transpose(MkSeq(LAMBDA c : BackCol(L, W, c), Cols(W)))

-----------------------------------------------------------------------------
(* Values of the object's attributes *)

NoKern == [name |-> "unset", bias |-> 0, linear |-> 0]

Kernel(b, l) == [name |-> "kern", bias |-> b, linear |-> l]

NoLik == [type |-> "unset", params |-> <<>>]

Lik(t, p) == [type |-> t, params |-> p]

NoPosterior == [set |-> FALSE, woodbury_chol |-> <<>>, woodbury_vector |-> <<>>]

\* which_parts: 'all', or a list of booleans, one per kernel part
AllParts == [all |-> TRUE, mask |-> <<>>]

Parts(m) == [all |-> FALSE, mask |-> m]

\* noise_model: None is <<>>, the integer i is <<i>>
None == <<>>

-----------------------------------------------------------------------------
(* External collaborators, from their contracts *)

UsesPart(which_parts, p) == which_parts.all \/ which_parts.mask[p]

RowDot(a, b) == Sum(LAMBDA d : FxMul(a[d], b[d]), Len(a))

\* kern.K(A, B, which_parts): a bias part plus a linear part
kern_K(k, A, B, which_parts) ==
    MkMat(LAMBDA i, j :
            (IF UsesPart(which_parts, 1) THEN k.bias ELSE 0)
            + (IF UsesPart(which_parts, 2) THEN FxMul(k.linear, RowDot(A[i], B[j])) ELSE 0),
          Rows(A), Rows(B))

\* kern.Kdiag(A, which_parts)
kern_Kdiag(k, A, which_parts) ==
    MkSeq(LAMBDA i :
            (IF UsesPart(which_parts, 1) THEN k.bias ELSE 0)
            + (IF UsesPart(which_parts, 2) THEN FxMul(k.linear, RowDot(A[i], A[i])) ELSE 0),
          Rows(A))

\* likelihoods.Gaussian is the only class isinstance(., Gaussian) accepts
IsGaussian(lik) == lik.type = "Gaussian"

\* likelihood._get_params()
lik_get_params(lik) == lik.params

\* the posterior from the Cholesky factor L of K + noise: alpha solves
\* L L^T alpha = Y by a forward and a back substitution
posterior_from_chol(L, Yobs) ==
    IF ~CholOk(L)
    THEN [err |-> "NumericalInstabilityError", posterior |-> NoPosterior]
    ELSE [err |-> "none",
          posterior |-> [set |-> TRUE, woodbury_chol |-> L,
                         woodbury_vector |-> BackSolve(L, ForwardSolve(L, Yobs))]]

\* ExactGaussianInference.inference(K, likelihood, Y)
inference(Kmat, lik, Yobs) ==
    IF ~IsGaussian(lik)
    THEN [err |-> "Unsupported", posterior |-> NoPosterior]
    ELSE IF Rows(Kmat) # Rows(Yobs)
    THEN [err |-> "ValueError", posterior |-> NoPosterior]
    ELSE posterior_from_chol(
             CholFactor(MkMat(LAMBDA i, j :
                                Kmat[i][j] + (IF i = j THEN lik.params[1] ELSE 0),
                              Rows(Kmat), Rows(Kmat))),
             Yobs)

\* likelihood.predictive_values(mu, var, full_cov): the Gaussian transform,
\* mean unchanged, variance plus noise, bounds at two standard deviations
predictive_values(lik, mu, var) ==
    LET noise == IF Len(lik.params) = 0 THEN 0 ELSE lik.params[1]
        v == MkMat(LAMBDA i, j : var[i][j] + noise, Rows(var), Cols(var))
        sd == MkSeq(LAMBDA i : np_sqrt(v[i][1]), Rows(v))
    IN [mean |-> mu,
        var |-> v,
        lower |-> MkMat(LAMBDA i, j :
                          IF sd[i] = NaN THEN NaN ELSE <<mu[i][j] - 2 * sd[i][1]>>,
                        Rows(mu), Cols(mu)),
        upper |-> MkMat(LAMBDA i, j :
                          IF sd[i] = NaN THEN NaN ELSE <<mu[i][j] + 2 * sd[i][1]>>,
                        Rows(mu), Cols(mu))]

\* the k-th standard normal draw of np.random
StdNormal(k) == Fx(k % RngPeriod) - Fx(RngPeriod \div 2)

-----------------------------------------------------------------------------
(* Records of calls *)

NoArgs ==
    [Xnew |-> <<>>, which_parts |-> AllParts, full_cov |-> FALSE, size |-> 0,
     noise_model |-> None, X |-> <<>>, Y |-> <<>>, kernel |-> NoKern,
     likelihood |-> NoLik, inference_method |-> "unset"]

NoOut == [mean |-> <<>>, var |-> <<>>, lower |-> <<>>, upper |-> <<>>, Ysim |-> <<>>]

\* op: the method called; err: "none" or the exception raised; out: what it
\* returned; inferences: how often the call invoked inference_method.inference
CallRec(op, args, err, out, inferences) ==
    [op |-> op, args |-> args, err |-> err, out |-> out, inferences |-> inferences]

\* a remembered predict call: its arguments, its result and the state of
\* np.random when it was made
NoRef == [set |-> FALSE, args |-> NoArgs, err |-> "none", out |-> NoOut, rng |-> 0]

ReadOps == {"_raw_predict", "predict", "posterior_samples_f", "posterior_samples"}

-----------------------------------------------------------------------------
(* GP.parameters_changed, lines 62-65: the attributes K and posterior after the
   hook has run on an object with the given attributes, and how it ended *)

\* line 65 on failure of a variant that drops the old posterior
store_posterior_mut_clear(r, newK, post) ==
    [err |-> r.err, K |-> newK, posterior |-> r.posterior, inferences |-> 1]

\* line 65: the assignment to self.posterior happens only if inference returned
store_posterior(r, newK, post) ==
    [err |-> r.err, K |-> newK,
     posterior |-> IF r.err = "none" THEN r.posterior ELSE post,
     inferences |-> 1]

parameters_changed(k, lik, Xs, Ys, im, post) ==
    IF im = "None"
    THEN \* line 64 has run; None has no attribute 'inference'
         [err |-> "AttributeError", K |-> kern_K(k, Xs, Xs, AllParts),
          posterior |-> post, inferences |-> 0]
    ELSE store_posterior(inference(kern_K(k, Xs, Xs, AllParts), lik, Ys),   \* line 65
                         kern_K(k, Xs, Xs, AllParts),                       \* line 64
                         post)

-----------------------------------------------------------------------------
(* GP.__init__, lines 30-60 *)

\* lines 48-55: the inference method the constructor selects; the else branch
\* belongs to the outer if and names expectation_propagation, which the module
\* neither defines nor imports
select_inference_method(lik, im) ==
    IF im = "None"
    THEN [err |-> "none",
          method |-> IF IsGaussian(lik) THEN "ExactGaussianInference" ELSE "None"]
    ELSE [err |-> "NameError", method |-> "unset"]

init_mut_no_fit(kernel, lik, Xa, Ya, method) ==
    [err |-> "none", K |-> <<>>, posterior |-> NoPosterior, inferences |-> 0]

\* line 60: the constructor ends by calling self.parameters_changed() on the
\* new object, which has no posterior yet
init_parameters_changed(kernel, lik, Xa, Ya, method) ==
    parameters_changed(kernel, lik, Xa, Ya, method, NoPosterior)

CtorArgs(Xa, Ya, kernel, lik, im) ==
    [NoArgs EXCEPT !.X = Xa, !.Y = Ya, !.kernel = kernel, !.likelihood = lik,
                   !.inference_method = im]

GP_init(Xa, Ya, kernel, lik, im) ==
    /\ last.op = "none"           \* the constructor is the first call on the object
    /\ ~constructed
    /\ X' = Xa                                                  \* line 34
    /\ num_data' = Rows(Xa)                                     \* line 35
    /\ input_dim' = Cols(Xa)
    /\ Y' = Ya                                                  \* line 38
    /\ rng' = rng
    /\ predRef' = NoRef
    /\ IF Rows(Ya) # Rows(Xa)                                   \* line 39
       THEN /\ output_dim' = 0
            /\ kern' = NoKern
            /\ likelihood' = NoLik
            /\ inference_method' = "unset"
            /\ K' = <<>>
            /\ posterior' = NoPosterior
            /\ constructed' = FALSE
            /\ last' = CallRec("__init__", CtorArgs(Xa, Ya, kernel, lik, im),
                               "AssertionError", NoOut, 0)
       ELSE /\ output_dim' = Cols(Ya)                           \* line 40
            /\ kern' = kernel                                   \* line 43
            /\ likelihood' = lik                                \* line 46
            /\ \E sel \in {select_inference_method(lik, im)} :
                  IF sel.err # "none"
                  THEN /\ inference_method' = "unset"
                       /\ K' = <<>>
                       /\ posterior' = NoPosterior
                       /\ constructed' = FALSE
                       /\ last' = CallRec("__init__", CtorArgs(Xa, Ya, kernel, lik, im),
                                          sel.err, NoOut, 0)
                  ELSE \E pc \in {init_parameters_changed(kernel, lik, Xa, Ya, sel.method)} :
                          /\ inference_method' = sel.method     \* line 55
                          /\ K' = pc.K
                          /\ posterior' = pc.posterior
                          /\ constructed' = (pc.err = "none")
                          /\ last' = CallRec("__init__", CtorArgs(Xa, Ya, kernel, lik, im),
                                             pc.err, NoOut, pc.inferences)

-----------------------------------------------------------------------------
(* A parameters_changed event: the parameter framework has written the values
   kp into the kernel and lp into the likelihood (both registered as parameters
   at lines 57-58) and calls the hook *)

PcArgs(k, lik) == [NoArgs EXCEPT !.kernel = k, !.likelihood = lik]

ParametersChangedEvent(kp, lp) ==
    /\ constructed
    /\ kern' = [kern EXCEPT !.bias = kp.bias, !.linear = kp.linear]
    /\ likelihood' = [likelihood EXCEPT !.params = lp]
    /\ \E pc \in {parameters_changed(kern', likelihood', X, Y, inference_method,
                                     posterior)} :
          /\ K' = pc.K
          /\ posterior' = pc.posterior
          /\ last' = CallRec("parameters_changed", PcArgs(kern', likelihood'), pc.err,
                             NoOut, pc.inferences)
    /\ predRef' = NoRef
    /\ UNCHANGED <<constructed, X, Y, num_data, input_dim, output_dim,
                   inference_method, rng>>

-----------------------------------------------------------------------------
(* GP._raw_predict, lines 73-93 *)

\* dtrtrs(A, B, lower=1): LAPACK's triangular solve; it rejects operands whose
\* row counts differ
dtrtrs_rejects(A, B) == Rows(A) # Rows(B)

dtrtrs(A, B) == ForwardSolve(A, B)

\* np.sum(Z*Z, 0)[c]
ColSumSq(Z, c) == Sum(LAMBDA k : FxMul(Z[k][c], Z[k][c]), Rows(Z))

\* lines 91-92: var = Kxx - np.sum(LiKx*LiKx, 0), reshaped to a column
diag_var(Kxx, LiKx) == MkSeq(LAMBDA i : <<Kxx[i] - ColSumSq(LiKx, i)>>, Len(Kxx))

raw_predict(Xnew, which_parts, full_cov) ==
    LET Kx == Transpose(kern_K(kern, Xnew, X, which_parts))     \* line 83
    IN IF ~posterior.set
       THEN [err |-> "AttributeError", mu |-> <<>>, var |-> <<>>]
       ELSE IF dtrtrs_rejects(posterior.woodbury_chol, Kx)      \* line 84
       THEN [err |-> "ValueError", mu |-> <<>>, var |-> <<>>]
       ELSE IF full_cov
       THEN \* lines 85 and 87 run; line 88 names tdot, which the module
            \* neither defines nor imports
            [err |-> "NameError", mu |-> <<>>, var |-> <<>>]
       ELSE [err |-> "none",
             mu |-> np_dot(Transpose(Kx), posterior.woodbury_vector),       \* line 85
             var |-> diag_var(kern_Kdiag(kern, Xnew, which_parts),          \* line 90
                              dtrtrs(posterior.woodbury_chol, Kx))]         \* line 84

ReadArgs(Xnew, which_parts, full_cov, size, noise_model) ==
    [NoArgs EXCEPT !.Xnew = Xnew, !.which_parts = which_parts, !.full_cov = full_cov,
                   !.size = size, !.noise_model = noise_model]

raw_predict_call(Xnew, which_parts, full_cov) ==
    /\ constructed
    /\ \E r \in {raw_predict(Xnew, which_parts, full_cov)} :
          last' = CallRec("_raw_predict", ReadArgs(Xnew, which_parts, full_cov, 0, None),
                          r.err, [NoOut EXCEPT !.mean = r.mu, !.var = r.var], 0)
    /\ UNCHANGED <<constructed, selfFields, rng, predRef>>

-----------------------------------------------------------------------------
(* GP.predict, lines 95-119 *)

\* the likelihood's values as the result record of predict
predict_out(pv) ==
    [err |-> "none",
     out |-> [NoOut EXCEPT !.mean = pv.mean, !.var = pv.var,
                           !.lower = pv.lower, !.upper = pv.upper]]

push_through_likelihood_mut_sampled(r) ==
    IF r.err # "none"
    THEN [err |-> r.err, out |-> NoOut]
    ELSE predict_out(predictive_values(
                         likelihood,
                         MkMat(LAMBDA i, j : r.mu[i][j] + StdNormal(rng),
                               Rows(r.mu), Cols(r.mu)),
                         r.var))

\* lines 117-119: the raw prediction r goes through the likelihood
push_through_likelihood(r) ==
    IF r.err # "none"
    THEN [err |-> r.err, out |-> NoOut]
    ELSE predict_out(predictive_values(likelihood, r.mu, r.var))

predict(Xnew, which_parts, full_cov) ==
    push_through_likelihood(raw_predict(Xnew, which_parts, full_cov))   \* line 115

predict_call_mut_refit(Xnew, which_parts, full_cov, remember) ==
    /\ constructed
    /\ \E pc \in {parameters_changed(kern, likelihood, X, Y, inference_method, posterior)},
          r \in {predict(Xnew, which_parts, full_cov)},
          args \in {ReadArgs(Xnew, which_parts, full_cov, 0, None)} :
          /\ K' = pc.K
          /\ posterior' = pc.posterior
          /\ last' = CallRec("predict", args, r.err, r.out, pc.inferences)
          /\ predRef' = IF remember
                        THEN [set |-> TRUE, args |-> args, err |-> r.err, out |-> r.out,
                              rng |-> rng]
                        ELSE predRef
    /\ UNCHANGED <<constructed, X, Y, num_data, input_dim, output_dim, kern, likelihood,
                   inference_method, rng>>

\* remember: whether this call is the one a later call is compared with
predict_call(Xnew, which_parts, full_cov, remember) ==
    /\ constructed
    /\ \E r \in {predict(Xnew, which_parts, full_cov)},
          args \in {ReadArgs(Xnew, which_parts, full_cov, 0, None)} :
          /\ last' = CallRec("predict", args, r.err, r.out, 0)
          /\ predRef' = IF remember
                        THEN [set |-> TRUE, args |-> args, err |-> r.err, out |-> r.out,
                              rng |-> rng]
                        ELSE predRef
    /\ UNCHANGED <<constructed, selfFields, rng>>

-----------------------------------------------------------------------------
(* GP.posterior_samples_f, lines 121-142 *)

\* np.random.multivariate_normal(m.flatten(), np.diag(v.flatten()), size).T with
\* the generator at state g: entry (i, s) is the i-th coordinate of the s-th
\* draw; a coordinate's draw is its mean plus a standard normal scaled by the
\* square root of the singular value of its variance
mvn_diag(m, v, size, g) ==
    MkMat(LAMBDA i, s :
            m[i] + FxMul(FxSqrt(Abs(v[i])), StdNormal(g + (s - 1) * Len(m) + (i - 1))),
          Len(m), size)

Flatten(A) ==
    MkSeq(LAMBDA i : A[((i - 1) \div Cols(A)) + 1][((i - 1) % Cols(A)) + 1],
          Rows(A) * Cols(A))

\* lines 136-142: the draw from the raw prediction r; the samples, and the
\* generator state afterwards
draw_latent(r, size, g) ==
    IF r.err # "none"
    THEN [err |-> r.err, Ysim |-> <<>>, rng |-> g]
    ELSE IF Rows(r.mu) * Cols(r.mu) # Rows(r.var) * Cols(r.var)
    THEN \* mean and cov of multivariate_normal must agree in length
         [err |-> "ValueError", Ysim |-> <<>>, rng |-> g]
    ELSE [err |-> "none",
          Ysim |-> mvn_diag(Flatten(r.mu), Flatten(r.var), size, g),       \* line 138
          rng |-> (g + size * Rows(r.mu) * Cols(r.mu)) % RngPeriod]

posterior_samples_f(Xs, size, which_parts, full_cov, g) ==
    draw_latent(raw_predict(Xs, which_parts, full_cov), size, g)           \* line 135

posterior_samples_f_call(Xs, size, which_parts, full_cov) ==
    /\ constructed
    /\ \E r \in {posterior_samples_f(Xs, size, which_parts, full_cov, rng)} :
          /\ last' = CallRec("posterior_samples_f",
                             ReadArgs(Xs, which_parts, full_cov, size, None),
                             r.err, [NoOut EXCEPT !.Ysim = r.Ysim], 0)
          /\ rng' = r.rng
    /\ UNCHANGED <<constructed, selfFields, predRef>>

-----------------------------------------------------------------------------
(* GP.posterior_samples, lines 144-171 *)

\* Ysim += np.random.normal(0, noise_std, Ysim.shape), filled in row-major order
add_normal(Ysim, noise_std, g) ==
    MkMat(LAMBDA i, s :
            Ysim[i][s] + FxMul(noise_std, StdNormal(g + (i - 1) * Cols(Ysim) + (s - 1))),
          Rows(Ysim), Cols(Ysim))

\* lines 161-171: noise is added to the latent samples f
add_noise(f, noise_model) ==
    IF f.err # "none"
    THEN [err |-> f.err, Ysim |-> <<>>, rng |-> f.rng]
    ELSE IF IsGaussian(likelihood)                              \* line 161
    THEN [err |-> "none",
          Ysim |-> add_normal(f.Ysim, FxSqrt(lik_get_params(likelihood)[1]),
                              f.rng),                           \* lines 162-163
          rng |-> (f.rng + Rows(f.Ysim) * Cols(f.Ysim)) % RngPeriod]
    ELSE \* line 164 names Gaussian_Mixed_Noise, which the module neither
         \* defines nor imports; lines 165-169 are never reached
         [err |-> "NameError", Ysim |-> <<>>, rng |-> f.rng]

posterior_samples(Xs, size, which_parts, full_cov, noise_model, g) ==
    add_noise(posterior_samples_f(Xs, size, which_parts, full_cov, g),  \* line 160
              noise_model)

posterior_samples_call(Xs, size, which_parts, full_cov, noise_model) ==
    /\ constructed
    /\ \E r \in {posterior_samples(Xs, size, which_parts, full_cov, noise_model, rng)} :
          /\ last' = CallRec("posterior_samples",
                             ReadArgs(Xs, which_parts, full_cov, size, noise_model),
                             r.err, [NoOut EXCEPT !.Ysim = r.Ysim], 0)
          /\ rng' = r.rng
    /\ UNCHANGED <<constructed, selfFields, predRef>>

-----------------------------------------------------------------------------
(* GP.setstate, lines 328-337: the attributes are taken from the state list;
   Model.setstate consumes the rest of the list and touches none of the
   attributes modelled here *)

setstate(state) ==
    /\ constructed
    /\ output_dim' = state.output_dim                           \* line 331
    /\ likelihood' = state.likelihood                           \* line 332
    /\ kern' = state.kern                                       \* line 333
    /\ input_dim' = state.input_dim                             \* line 334
    /\ num_data' = state.num_data                               \* line 335
    /\ X' = state.X                                             \* line 336
    /\ last' = CallRec("setstate",
                       [NoArgs EXCEPT !.X = state.X, !.kernel = state.kern,
                                      !.likelihood = state.likelihood],
                       "none", NoOut, 0)
    /\ predRef' = NoRef
    /\ UNCHANGED <<constructed, Y, inference_method, K, posterior, rng>>

-----------------------------------------------------------------------------
(* Inputs *)

X_of(n) == MkSeq(LAMBDA i : <<Fx(i)>>, n)

Y_of(n) == MkSeq(LAMBDA i : <<Fx(i % 2)>>, n)

XChoices == {X_of(n) : n \in 1..MaxN}

YChoices == {Y_of(n) : n \in 1..MaxN}

KernChoices == {Kernel(Fx(1), Fx(1)), Kernel(Fx(4), 0)}

GaussianParams == {<<0>>, <<Fx(1)>>}

MixedNoise == Lik("Gaussian_Mixed_Noise", <<Fx(1), Fx(2)>>)

LikChoices ==
    {Lik("Gaussian", p) : p \in GaussianParams} \cup {MixedNoise, Lik("Bernoulli", <<>>)}

\* the parameter values the framework can write into a likelihood
LikParams(lik) == IF IsGaussian(lik) THEN GaussianParams ELSE {lik.params}

InferenceChoices == {"None", "ExactGaussianInference", "Laplace"}

Xnew_of(n) == MkSeq(LAMBDA i : <<Fx(2 * i - 1)>>, n)

XnewChoices == {Xnew_of(n) : n \in 1..MaxN}

PartsChoices == {AllParts, Parts(<<TRUE, FALSE>>)}

SizeChoices == {1, 2}

NoiseModelChoices == {None, <<1>>}

\* state lists as getstate (lines 318-326) builds them
StateChoices ==
    {[X |-> x, num_data |-> Rows(x), input_dim |-> Cols(x), kern |-> Kernel(Fx(4), 0),
      likelihood |-> MixedNoise, output_dim |-> 1] : x \in {X_of(MaxN)}}

-----------------------------------------------------------------------------
(* The specification *)

Init ==
    /\ constructed = FALSE
    /\ X = <<>>
    /\ Y = <<>>
    /\ num_data = 0
    /\ input_dim = 0
    /\ output_dim = 0
    /\ kern = NoKern
    /\ likelihood = NoLik
    /\ inference_method = "unset"
    /\ K = <<>>
    /\ posterior = NoPosterior
    /\ rng = 0
    /\ last = CallRec("none", NoArgs, "none", NoOut, 0)
    /\ predRef = NoRef

Construct ==
    \E x \in XChoices, y \in YChoices, k \in KernChoices, l \in LikChoices,
       im \in InferenceChoices : GP_init(x, y, k, l, im)

ParamsChange ==
    \E kp \in KernChoices : \E lp \in LikParams(likelihood) :
       ParametersChangedEvent(kp, lp)

RawPredict ==
    \E xn \in XnewChoices, wp \in PartsChoices, fc \in BOOLEAN :
       raw_predict_call(xn, wp, fc)

Predict == \E xn \in XnewChoices, fc \in BOOLEAN : predict_call(xn, AllParts, fc, FALSE)

SampleF ==
    \E xn \in XnewChoices, n \in SizeChoices, fc \in BOOLEAN :
       posterior_samples_f_call(xn, n, AllParts, fc)

Sample ==
    \E xn \in XnewChoices, n \in SizeChoices, fc \in BOOLEAN, nm \in NoiseModelChoices :
       posterior_samples_call(xn, n, AllParts, fc, nm)

SetState == \E st \in StateChoices : setstate(st)

Next ==
    \/ Construct
    \/ ParamsChange
    \/ RawPredict
    \/ Predict
    \/ SampleF
    \/ Sample
    \/ SetState

Spec == Init /\ [][Next]_vars

\* The life of an object that is never unpickled, with any predict call
\* possibly remembered for comparison with a later one
PredictRemembering ==
    \E xn \in XnewChoices, fc \in BOOLEAN, rem \in BOOLEAN :
       predict_call(xn, AllParts, fc, rem)

NextDet ==
    \/ Construct
    \/ ParamsChange
    \/ RawPredict
    \/ PredictRemembering
    \/ SampleF
    \/ Sample

SpecDet == Init /\ [][NextDet]_vars

-----------------------------------------------------------------------------
(* Properties *)

\* numerical tolerance on a variance: half a unit
Tol == Scale \div 2

IsLowerTriangular(L) ==
    \A i \in 1..Rows(L) : /\ Len(L[i]) = Rows(L)
                          /\ L[i][i] > 0
                          /\ \A j \in (i + 1)..Rows(L) : L[i][j] = 0

\* a complete posterior for n observations of m outputs
FullPosterior(p, n, m) ==
    /\ p.set
    /\ Rows(p.woodbury_chol) = n
    /\ IsLowerTriangular(p.woodbury_chol)
    /\ Rows(p.woodbury_vector) = n
    /\ \A i \in 1..n : Len(p.woodbury_vector[i]) = m

\* C1: a parameters_changed event either ends normally with a complete
\* posterior stored, or raises and leaves the stored posterior as it was; the
\* object never holds a partial posterior.
C1_NoPartialPosterior ==
    /\ [](posterior.set => FullPosterior(posterior, Rows(posterior.woodbury_chol),
                                         Cols(Y)))
    /\ [][last'.op = "parameters_changed" =>
            IF last'.err = "none"
            THEN FullPosterior(posterior', Rows(K'), Cols(Y'))
            ELSE posterior' = posterior]_vars

\* a parameters_changed event has failed on an object that held a posterior
C1_Witness ==
    /\ last.op = "parameters_changed"
    /\ last.err = "NumericalInstabilityError"
    /\ posterior.set

\* C2: after a parameters_changed event, a stored posterior is the one
\* inference produces from the stored K (the kernel covariance of X), the
\* likelihood and Y -- also when the event's inference step failed.
C2_PosteriorMatchesTriple ==
    (last.op = "parameters_changed" /\ posterior.set) =>
        /\ K = kern_K(kern, X, X, AllParts)
        /\ inference(K, likelihood, Y).err = "none"
        /\ inference(K, likelihood, Y).posterior = posterior

\* C3: a prediction or sampling call leaves K, posterior, X, Y, kernel,
\* likelihood and inference method as they were and does not invoke inference.
C3_ReadsOnly ==
    [][last'.op \in ReadOps =>
          /\ UNCHANGED <<K, posterior, X, Y, kern, likelihood, inference_method>>
          /\ last'.inferences = 0]_vars

\* a sampling call has returned samples and moved the random generator
C3_Witness ==
    /\ last.op = "posterior_samples"
    /\ last.err = "none"
    /\ rng # 0

\* C4: a constructed object holds a posterior, its constructor has run
\* inference, and no prediction or sampling call finds the posterior absent.
C4_PosteriorBeforeUse ==
    constructed =>
        /\ posterior.set
        /\ (last.op = "__init__" => last.inferences = 1)
        /\ (last.op \in ReadOps => last.err # "AttributeError")

\* a predict call on a constructed object has returned
C4_Witness ==
    /\ constructed
    /\ last.op = "predict"
    /\ last.err = "none"

\* the constructor's arguments pass its assertions (lines 33-45)
CtorArgsValid(a) == Rows(a.X) = Rows(a.Y)

\* C5: a constructor call with a non-Gaussian likelihood and no inference
\* method, or with an inference method other than exact Gaussian inference,
\* raises Unsupported at the selection: no method is stored and nothing later
\* in the constructor runs.
C5_UnsupportedAtSelection ==
    (/\ last.op = "__init__"
     /\ CtorArgsValid(last.args)
     /\ \/ (last.args.inference_method = "None" /\ ~IsGaussian(last.args.likelihood))
        \/ last.args.inference_method \notin {"None", "ExactGaussianInference"})
    => /\ last.err = "Unsupported"
       /\ inference_method = "unset"
       /\ K = <<>>

\* C6: on an object with the mixed-noise likelihood, posterior_samples (diagonal
\* case, posterior fitting the data) raises an error without a noise selector
\* and with one returns an N_new x size matrix.
C6_MixedNoiseSelector ==
    (/\ last.op = "posterior_samples"
     /\ likelihood.type = "Gaussian_Mixed_Noise"
     /\ ~last.args.full_cov
     /\ posterior.set
     /\ Rows(posterior.woodbury_chol) = Rows(X))
    => IF last.args.noise_model = None
       THEN last.err # "none"
       ELSE /\ last.err = "none"
            /\ Rows(last.out.Ysim) = Rows(last.args.Xnew)
            /\ Cols(last.out.Ysim) = last.args.size

\* C7: in the diagonal case _raw_predict, on an object with a Gaussian
\* likelihood (one the constructor builds), returns no variance below -Tol: a
\* value below it is reported as an error, not returned.
C7_VarianceNonNegative ==
    (/\ last.op = "_raw_predict"
     /\ ~last.args.full_cov
     /\ IsGaussian(likelihood)
     /\ last.err = "none")
    => \A i \in 1..Rows(last.out.var) : last.out.var[i][1] >= -Tol

\* C8: for a single point, _raw_predict with full_cov=True returns the mean and
\* (as a 1x1 matrix) the variance that it returns with full_cov=False.
C8_FullCovSinglePoint ==
    (/\ last.op = "_raw_predict"
     /\ last.args.full_cov
     /\ Rows(last.args.Xnew) = 1
     /\ raw_predict(last.args.Xnew, last.args.which_parts, FALSE).err = "none")
    => /\ last.err = "none"
       /\ last.out.mean = raw_predict(last.args.Xnew, last.args.which_parts, FALSE).mu
       /\ last.out.var = raw_predict(last.args.Xnew, last.args.which_parts, FALSE).var

\* C9: a predict call returns what the remembered predict call with the same
\* arguments returned, whatever prediction and sampling calls came between
\* (the remembered call is forgotten at every parameters_changed event).
C9_PredictDeterministic ==
    (last.op = "predict" /\ predRef.set /\ predRef.args = last.args)
    => (predRef.err = last.err /\ predRef.out = last.out)

\* a predict call has returned after an equal call made at another state of
\* the random generator, so with sampling calls in between
C9_Witness ==
    /\ last.op = "predict"
    /\ last.err = "none"
    /\ predRef.set
    /\ predRef.args = last.args
    /\ predRef.rng # rng

\* C10: after a constructor call that was given an inference method, that
\* method is the one stored on the object.
C10_ExplicitMethodStored ==
    (/\ last.op = "__init__"
     /\ CtorArgsValid(last.args)
     /\ last.args.inference_method # "None")
    => inference_method = last.args.inference_method

====
